---- MODULE Spec2Model ----
(***************************************************************************)
(* names-wordlist: the streaming pipeline of namesWordlist (producer) and  *)
(* OutputRoutine (consumer), connected by a buffered channel.              *)
(*                                                                         *)
(* Strings are sequences of one-character strings, so that splitting,      *)
(* case mapping and concatenation are computed and not assumed.            *)
(***************************************************************************)
EXTENDS Integers, Sequences, FiniteSets, TLC

\* ------------------------------------------------------------------ bounds
\* number of name fields the input stream holds at most
MaxFields == 4
\* largest configured --count
MaxCnt == 2
\* largest configured --digits in the pipeline runs
MaxDigits == 0
\* largest configured --digits in the runs of OutputRoutine on its own
ExpDigits == 2
\* number of pages the input stream holds at most, in the runs over page texts
MaxPages == 2
\* number of writes to the output file that fail at most
MaxFailedWrites == 1
\* capacity of the channel (make(chan string, 100) in the code)
ChanCap == 2

\* ------------------------------------------------------- program constants
\* maxNumber *= 10
Radix == 10

\* --------------------------------------------------------------- characters
LowerLetters == <<"a", "b", "c", "d", "e", "f", "g", "h", "i", "j", "k", "l", "m",
                  "n", "o", "p", "q", "r", "s", "t", "u", "v", "w", "x", "y", "z">>
UpperLetters == <<"A", "B", "C", "D", "E", "F", "G", "H", "I", "J", "K", "L", "M",
                  "N", "O", "P", "Q", "R", "S", "T", "U", "V", "W", "X", "Y", "Z">>
DigitChars == <<"0", "1", "2", "3", "4", "5", "6", "7", "8", "9">>

Range(s) == {s[k] : k \in 1..Len(s)}

IndexOf(s, x) == CHOOSE k \in 1..Len(s) : s[k] = x

LowerSet == Range(LowerLetters)
UpperSet == Range(UpperLetters)
DigitSet == Range(DigitChars)

LowerOf == [r \in UpperSet |-> LowerLetters[IndexOf(UpperLetters, r)]]
UpperOf == [r \in LowerSet |-> UpperLetters[IndexOf(LowerLetters, r)]]

\* unicode.ToLower on one character
ToLowerChar(r) == IF r \in UpperSet THEN LowerOf[r] ELSE r

\* unicode.ToUpper on one character
ToUpperChar(r) == IF r \in LowerSet THEN UpperOf[r] ELSE r

\* strings.ToLower
ToLower(s) == [k \in 1..Len(s) |-> ToLowerChar(s[k])]

\* strings.ToUpper
ToUpper(s) == [k \in 1..Len(s) |-> ToUpperChar(s[k])]

\* strings.isSeparator: ASCII letters, digits and the underscore do not
\* separate words, every other ASCII character does
isSeparator(r) == r \notin (LowerSet \cup UpperSet \cup DigitSet \cup {"_"})

\* strings.Title: the letter that begins a word is mapped to title case,
\* every other character is copied
Title(s) == [k \in 1..Len(s) |->
               IF isSeparator(IF k = 1 THEN " " ELSE s[k - 1]) THEN ToUpperChar(s[k]) ELSE s[k]]

\* ----------------------------------------------------------- field splitting
\* \s of the regular expressions
Whitespace == {"\t", "\n", "\f", "\r", " "}

\* the character class of FirstnameSeperatorRegExp ("U+02BF" is the one
\* element that stands for the transliteration mark)
FirstnameSeperatorClass == Whitespace \cup {"-", ".", "'", "\"", "U+02BF"}

\* first index >= i of s that is not whitespace (Len(s) + 1 if none)
RECURSIVE SkipWhitespace(_, _)
SkipWhitespace(s, i) ==
    IF i <= Len(s) /\ s[i] \in Whitespace THEN SkipWhitespace(s, i + 1) ELSE i

\* a match of \s*,\s* can begin at i
NameSepMatchesAt(s, i) ==
    LET j == SkipWhitespace(s, i) IN j <= Len(s) /\ s[j] = ","

\* NameSeperatorRegExp.Split(s, -1), the pieces from position beg on
RECURSIVE NameSplitFrom(_, _, _)
NameSplitFrom(s, beg, i) ==
    IF i > Len(s) THEN <<SubSeq(s, beg, Len(s))>>
    ELSE IF NameSepMatchesAt(s, i)
         THEN LET comma == SkipWhitespace(s, i)
                  after == SkipWhitespace(s, comma + 1)
              IN  <<SubSeq(s, beg, i - 1)>> \o NameSplitFrom(s, after, after)
         ELSE NameSplitFrom(s, beg, i + 1)

\* the split on the comma alone, the whitespace around it left in the pieces
RECURSIVE CommaSplitFrom(_, _, _)
CommaSplitFrom(s, beg, i) ==
    IF i > Len(s) THEN <<SubSeq(s, beg, Len(s))>>
    ELSE IF s[i] = ","
         THEN <<SubSeq(s, beg, i - 1)>> \o CommaSplitFrom(s, i + 1, i + 1)
         ELSE CommaSplitFrom(s, beg, i + 1)

CommaSplit(s) == CommaSplitFrom(s, 1, 1)

NameSeperatorSplit(s) == NameSplitFrom(s, 1, 1)

\* FirstnameSeperatorRegExp.Split(s, -1), the pieces from position beg on
RECURSIVE FirstnameSplitFrom(_, _, _)
FirstnameSplitFrom(s, beg, i) ==
    IF i > Len(s) THEN <<SubSeq(s, beg, Len(s))>>
    ELSE IF s[i] \in FirstnameSeperatorClass
         THEN <<SubSeq(s, beg, i - 1)>> \o FirstnameSplitFrom(s, i + 1, i + 1)
         ELSE FirstnameSplitFrom(s, beg, i + 1)

\* the split of the part folded to lower case
FirstnameSplitFolded(s) == FirstnameSplitFrom(ToLower(s), 1, 1)

FirstnameSeperatorSplit(s) == FirstnameSplitFrom(s, 1, 1)

\* ----------------------------------------------------------- page extraction
\* [a-z] under the flag i
Letters == LowerSet \cup UpperSet

\* the character class [\t\n\f\r '"U+02BF] of TemplateFieldsRegExp
Filler == Whitespace \cup {"'", "\"", "U+02BF"}

\* first index >= i of s whose character is not in class (Len(s) + 1 if none)
RECURSIVE Span(_, _, _)
Span(s, i, class) ==
    IF i <= Len(s) /\ s[i] \in class THEN Span(s, i + 1, class) ELSE i

\* first index >= i of s that holds the character r (Len(s) + 1 if none)
RECURSIVE Find(_, _, _)
Find(s, i, r) ==
    IF i <= Len(s) /\ s[i] # r THEN Find(s, i + 1, r) ELSE i

\* the text that PersonDataTemplateRegExpDE matches literally, under the flag i
TemplateOpening ==
    <<"{", "{", "p", "e", "r", "s", "o", "n", "e", "n", "d", "a", "t", "e",
    "n">>

\* PersonDataTemplateRegExpDE matches at i: the opening, one or more
\* characters other than "}", and "}}"
TemplateMatchesAt(text, i) ==
    LET b == i + Len(TemplateOpening)
        r == Find(text, b, "}")
    IN  /\ b - 1 <= Len(text)
        /\ ToLower(SubSeq(text, i, b - 1)) = TemplateOpening
        /\ r > b
        /\ r + 1 <= Len(text)
        /\ text[r + 1] = "}"

\* tmpl[1] of every match of FindAllStringSubmatch(text, -1) from i on
RECURSIVE TemplatesFrom(_, _)
TemplatesFrom(text, i) ==
    IF i > Len(text) THEN << >>
    ELSE IF TemplateMatchesAt(text, i)
         THEN LET b == i + Len(TemplateOpening)
                  r == Find(text, b, "}")
              IN  <<SubSeq(text, b, r - 1)>> \o TemplatesFrom(text, r + 2)
         ELSE TemplatesFrom(text, i + 1)

\* strings.Split(s, "|"), the pieces from position beg on
RECURSIVE PipeSplitFrom(_, _, _)
PipeSplitFrom(s, beg, i) ==
    IF i > Len(s) THEN <<SubSeq(s, beg, Len(s))>>
    ELSE IF s[i] = "|"
         THEN <<SubSeq(s, beg, i - 1)>> \o PipeSplitFrom(s, i + 1, i + 1)
         ELSE PipeSplitFrom(s, beg, i + 1)

\* the segments of the templates ts, in the order of the two loops
RECURSIVE SegmentsOf(_)
SegmentsOf(ts) ==
    IF ts = << >> THEN << >>
    ELSE PipeSplitFrom(Head(ts), 1, 1) \o SegmentsOf(Tail(ts))

\* every sub the loops over the templates of a page text come to
Segments(text) == SegmentsOf(TemplatesFrom(text, 1))

\* TemplateFieldsRegExp matched from i on: <<kv[1], kv[2]>>, or << >> if it
\* does not match there. The value begins after as many filler characters as
\* leave it one character of its line, and runs to the end of that line.
FieldMatchAt(s, i) ==
    LET j == Span(s, i, Whitespace)
        k == Span(s, j, Letters)
        e == Span(s, k, Whitespace)
        f == Span(s, e + 1, Filler)
        starts == {q \in (e + 1)..f : q <= Len(s) /\ s[q] # "\n"}
    IN  IF k > j /\ e <= Len(s) /\ s[e] = "=" /\ starts # {}
        THEN LET q == CHOOSE x \in starts : \A y \in starts : y <= x
             IN  <<SubSeq(s, j, k - 1), SubSeq(s, q, Find(s, q, "\n") - 1)>>
        ELSE << >>

\* TemplateFieldsRegExp.FindStringSubmatch(sub): the leftmost match
FindStringSubmatch(sub) ==
    LET at == {i \in 1..Len(sub) : FieldMatchAt(sub, i) # << >>}
    IN  IF at = {} THEN << >>
        ELSE FieldMatchAt(sub, CHOOSE i \in at : \A j \in at : i <= j)

\* the key of a segment selects every case of the switch
AnyKey(k) == TRUE

\* switch strings.ToLower(kv[1]) { case "name":
IsNameKey(k) == ToLower(k) = <<"n", "a", "m", "e">>

\* the values of the name fields the input stream can hold
Values ==
    { <<"S", ",", " ", "a", "b">>,
      <<"S", " ", ",", "A", "B", " ", "c">>,
      <<"S">>,
      <<"S", ",", "-", "a">> }

\* the values whose first names OutputRoutine is run on
ExpandValues ==
    Values \cup { <<"S", ",", " ", "a", "B", "/", "c", "-", "d">>,
                  <<"R", ",", " ", "J", ".", " ", "K">> }

\* the page texts the input stream can hold
OttoPage ==
    <<"{", "{", "P", "e", "r", "s", "o", "n", "e", "n", "d", "a", "t", "e",
    "n", "|", "n", "a", "m", "e", " ", "=", " ", "S", "c", "h", "m", "i",
    "d", "t", ",", " ", "O", "t", "t", "o", "|", "n", "a", "m", "e", " ",
    "=", " ", "M", "U+00FC", "l", "l", "e", "r", ",", " ", "O", "t", "t",
    "o", "}", "}">>

PlainPage ==
    <<"{", "{", "P", "|", "N", "A", "M", "E", "=", "S", ",", " ", "O", "t",
    "t", "o", "}", "}">>

AnnaPage ==
    <<"{", "{", "P", "E", "R", "S", "O", "N", "E", "N", "D", "A", "T", "E",
    "N", "\n", "|", "x", "\n", "|", "G", "E", "B", "U", "R", "T", "=",
    "S", ",", " ", "O", "t", "t", "o", "\n", "|", "N", "A", "M", "E",
    "=", "M", "U+00FC", "l", "l", "e", "r", "\n", "|", "N", "a", "m",
    "e", "=", "M", "U+00FC", "l", "l", "e", "r", ",", " ", "A", "n", "n",
    "a", " ", "M", "a", "r", "i", "a", "\n", "}", "}">>

OddPage ==
    <<"{", "{", "p", "e", "r", "s", "o", "n", "e", "n", "d", "a", "t", "e",
    "n", "|", "N", "A", "M", "E", "=", "S", " ", ",", "A", "B", " ", "c",
    "|", "n", "a", "m", "e", "=", "T", ",", "-", "a", "|", "N", "a", "m",
    "e", " ", "=", " ", "U", ",", " ", "a", "b", " ", ",", " ", "x", "}",
    "}">>

Pages == {OttoPage, PlainPage, AnnaPage, OddPage}

\* the results of the parsing steps for the texts above, each computed once
\* the segments of every page text
PageSegments == [p \in Pages |-> Segments(p)]

AllSegments == UNION {{PageSegments[p][i] : i \in 1..Len(PageSegments[p])} : p \in Pages}

\* kv of every segment
Submatch == [sub \in AllSegments |-> FindStringSubmatch(sub)]

\* kv[2] of every segment that has one, and the values of the name fields
FieldValues ==
    Values \cup {Submatch[sub][2] : sub \in {x \in AllSegments : Submatch[x] # << >>}}

\* name of every value
NameGroups == [v \in FieldValues |-> NameSeperatorSplit(v)]

\* firstname of every name[1]
FirstnameTokens ==
    [g \in {NameGroups[v][2] : v \in {w \in FieldValues : Len(NameGroups[w]) >= 2}} |->
        FirstnameSeperatorSplit(g)]

\* the special-chars strings a run can be configured with
SpecialChars == { <<>>, <<"!">>, <<"!", "$">>, <<"!", "!">> }

\* the special-chars strings OutputRoutine is run on
ExpandSpecialChars == SpecialChars \cup { <<"1">> }

\* ------------------------------------------------------------ suffix tables
RECURSIVE Pow(_, _)
Pow(b, n) == IF n <= 0 THEN 1 ELSE b * Pow(b, n - 1)

\* the decimal digits of i >= 0
RECURSIVE Decimal(_)
Decimal(i) ==
    IF i < Radix THEN <<DigitChars[i + 1]>>
    ELSE Decimal(i \div Radix) \o <<DigitChars[(i % Radix) + 1]>>

\* s padded with zeros on the left to at least w characters
RECURSIVE ZeroPad(_, _)
ZeroPad(s, w) == IF Len(s) >= w THEN s ELSE ZeroPad(<<"0">> \o s, w)

\* the number without the padding
SprintfPlain(w, i) == Decimal(i)

\* fmt.Sprintf("%0<w>d", i)
Sprintf0(w, i) == ZeroPad(Decimal(i), w)

\* the format without the padding: "%d"
WidthCombsUnpadded(w) == [k \in 1..Pow(Radix, w) |-> Decimal(k - 1)]

\* the strings one round of the outer loop appends: i = 0 .. maxNumber-1
WidthCombs(w) == [k \in 1..Pow(Radix, w) |-> Sprintf0(w, k - 1)]

\* only the widest numbers are kept
DigitCombsWidestOnly(n) == IF n <= 0 THEN << <<>> >> ELSE << <<>> >> \o WidthCombs(n)

\* digitCombs after the loop "for d := 0; d < digits; d++"
RECURSIVE DigitCombs(_)
DigitCombs(n) == IF n <= 0 THEN << <<>> >> ELSE DigitCombs(n - 1) \o WidthCombs(n)

\* charCombs after the loop over the runes of specialChars
CharCombs(sc) == << <<>> >> \o [k \in 1..Len(sc) |-> <<sc[k]>>]

\* the upper-case line written first
ChunkUpperFirst(name, d, c) ==
    << ToUpper(name) \o d \o c, ToLower(name) \o d \o c, Title(name) \o d \o c >>

\* the three lines of one WriteString call
Chunk(name, d, c) ==
    << ToLower(name) \o d \o c, ToUpper(name) \o d \o c, Title(name) \o d \o c >>

\* -------------------------------------------------------------------- state
VARIABLES
    cnt,            \* viper.GetInt("count")
    digits,         \* viper.GetInt("digits")
    specialChars,   \* viper.GetString("special-chars")
    firstnameHist,  \* map[string]int of the producer
    nFields,        \* name fields read from the input stream so far
    mPc,            \* where namesWordlist stands
    pending,        \* the name of the send the producer stands at
    ch,             \* the names buffered in the channel
    chClosed,       \* close(ch) has happened
    wg,             \* counter of the WaitGroup
    outClosed,      \* the deferred out.Close() has run
    cPc,            \* where OutputRoutine stands
    digitCombs,     \* OutputRoutine's table of numeric suffixes
    charCombs,      \* OutputRoutine's table of special suffixes
    name,           \* the name OutputRoutine expands
    di,             \* index of d in digitCombs
    ci,             \* index of c in charCombs
    out,            \* the lines written to the output file
    seen,           \* history: the names in the order of their first count
    sent,           \* history: the names sent on the channel, in order
    input,          \* the texts of the pages the input stream holds
    nPages,         \* pages decoded from the input stream so far
    todo,           \* the field segments of the decoded page still to be parsed
    err,            \* the error of the last decoder.Token()
    failedWrites,   \* history: the w.WriteString(...) calls that returned an error
    final,          \* the slice of FirstnameCount of the sorting revision
    sPc             \* where the sorting revision stands after its token loop

vars == <<cnt, digits, specialChars, firstnameHist, nFields, mPc, pending, ch,
          chClosed, wg, outClosed, cPc, digitCombs, charCombs, name, di, ci,
          out, seen, sent, input, nPages, todo, err, failedWrites, final, sPc>>

config == <<cnt, digits, specialChars>>
stream == <<input, nPages, todo>>
producer == <<firstnameHist, nFields, mPc, pending, seen, stream, err>>
consumer == <<cPc, digitCombs, charCombs, name, di, ci, failedWrites>>
sorting == <<final, sPc>>

\* the map read: a missing key reads as 0
Count(h, f) == IF f \in DOMAIN h THEN h[f] ELSE 0

\* the increment as a fresh map: every other entry is dropped
IncrementAlone(h, f) == [g \in {f} |-> Count(h, f) + 1]

\* firstnameHist[f] += 1
Increment(h, f) == [g \in DOMAIN h \cup {f} |-> IF g = f THEN Count(h, f) + 1 ELSE h[g]]

\* the comparison as ">=": every increment from the threshold on fires
ThresholdHitAtLeast(c, n) == c >= n

\* the comparison one late: "more than cnt occurrences"
ThresholdHitAbove(c, n) == c = n + 1

\* if firstnameHist[firstname[0]] == cnt
ThresholdHit(c, n) == c = n

\* a channel that hands out the newest name first
EnqueueFront(q, x) == <<x>> \o q

\* the buffer after a send
Enqueue(q, x) == Append(q, x)

\* the state after go OutputRoutine(...), before the first token is read
Init ==
    /\ cnt \in 0..MaxCnt
    /\ digits \in 0..MaxDigits
    /\ specialChars \in {sc \in SpecialChars : Len(sc) <= 1}
    /\ firstnameHist = << >>
    /\ nFields = 0
    /\ mPc = "scan"
    /\ pending = << >>
    /\ ch = << >>
    /\ chClosed = FALSE
    /\ wg = 1
    /\ outClosed = FALSE
    /\ cPc = "spawned"
    /\ digitCombs = << >>
    /\ charCombs = << >>
    /\ name = << >>
    /\ di = 0
    /\ ci = 0
    /\ out = << >>
    /\ seen = << >>
    /\ sent = << >>
    /\ input = << >>
    /\ nPages = 0
    /\ todo = << >>
    /\ err = "nil"
    /\ failedWrites = 0
    /\ final = << >>
    /\ sPc = "none"

\* ----------------------------------------------------------------- producer
\* the body of case "name" for the value v, up to the send
NameCase(v) ==
    LET names == NameGroups[v] IN
    IF Len(names) < 2
    THEN UNCHANGED <<firstnameHist, mPc, pending, seen>>
    ELSE LET firstname == FirstnameTokens[names[2]] IN
         IF Len(firstname) < 1
         THEN UNCHANGED <<firstnameHist, mPc, pending, seen>>
         ELSE /\ firstnameHist' = Increment(firstnameHist, firstname[1])
              /\ seen' = IF firstname[1] \in DOMAIN firstnameHist THEN seen
                         ELSE Append(seen, firstname[1])
              /\ IF ThresholdHit(firstnameHist'[firstname[1]], cnt)
                 THEN mPc' = "send" /\ pending' = firstname[1]
                 ELSE UNCHANGED <<mPc, pending>>

\* one name field with value v, of a stream that is given by its name fields
Field(v) ==
    /\ mPc = "scan"
    /\ nFields < MaxFields
    /\ nFields' = nFields + 1
    /\ NameCase(v)
    /\ UNCHANGED <<config, sorting, stream, err, ch, chClosed, wg, outClosed, consumer, out, sent>>

\* a <page> element is decoded: its templates are found and split
Page ==
    /\ mPc = "scan"
    /\ todo = << >>
    /\ nPages < Len(input)
    /\ nPages' = nPages + 1
    /\ todo' = PageSegments[input[nPages + 1]]
    /\ UNCHANGED <<config, sorting, input, err, firstnameHist, nFields, mPc, pending, seen, ch,
                   chClosed, wg, outClosed, consumer, out, sent>>

\* one round of the loop over the segments of a template
Segment ==
    /\ mPc = "scan"
    /\ todo # << >>
    /\ todo' = Tail(todo)
    /\ LET kv == Submatch[Head(todo)] IN
       IF kv = << >>
       THEN UNCHANGED <<firstnameHist, nFields, mPc, pending, seen>>
       ELSE IF IsNameKey(kv[1])
            THEN nFields' = nFields + 1 /\ NameCase(kv[2])
            ELSE UNCHANGED <<firstnameHist, nFields, mPc, pending, seen>>
    /\ UNCHANGED <<config, sorting, input, nPages, err, ch, chClosed, wg, outClosed, consumer,
                   out, sent>>

\* ch <- firstname[0]: blocks while the buffer is full
Send ==
    /\ mPc = "send"
    /\ Len(ch) < ChanCap
    /\ ch' = Enqueue(ch, pending)
    /\ sent' = Append(sent, pending)
    /\ mPc' = "scan"
    /\ pending' = << >>
    /\ UNCHANGED <<config, sorting, firstnameHist, nFields, seen, stream, err, chClosed, wg,
                   outClosed, consumer, out>>

\* where the token loop goes on after decoder.Token() returned (token, e)
AfterToken(token, e) ==
    IF token = "nil" \/ e = "EOF" THEN "close"
    ELSE IF e # "nil" THEN "failed"
    ELSE "scan"

\* decoder.Token() reports the end of the input: break
EndOfInput ==
    /\ mPc = "scan"
    /\ todo = << >>
    /\ nPages = Len(input)
    /\ err' = "EOF"
    /\ mPc' = AfterToken("nil", "EOF")
    /\ UNCHANGED <<config, sorting, stream, firstnameHist, nFields, pending, seen, ch, chClosed, wg,
                   outClosed, consumer, out, sent>>

\* decoder.Token() fails to read on: it returns no token and the error
ReadError ==
    /\ mPc = "scan"
    /\ todo = << >>
    /\ err' = "error"
    /\ mPc' = AfterToken("nil", "error")
    /\ UNCHANGED <<config, sorting, stream, firstnameHist, nFields, pending, seen, ch, chClosed, wg,
                   outClosed, consumer, out, sent>>

\* close(ch)
Close ==
    /\ mPc = "close"
    /\ chClosed' = TRUE
    /\ mPc' = "wait"
    /\ UNCHANGED <<config, sorting, stream, err, firstnameHist, nFields, pending, seen, ch, wg, outClosed,
                   consumer, out, sent>>

\* wg.Wait() returns once the counter is 0; namesWordlist returns and the
\* deferred out.Close() runs
WaitReturn ==
    /\ mPc = "wait"
    /\ wg = 0
    /\ mPc' = "returned"
    /\ outClosed' = TRUE
    /\ UNCHANGED <<config, sorting, stream, err, firstnameHist, nFields, pending, seen, ch, chClosed, wg,
                   consumer, out, sent>>

\* main returns: the process ends and with it every goroutine
Exit ==
    /\ mPc = "returned"
    /\ mPc' = "exited"
    /\ UNCHANGED <<config, sorting, stream, err, firstnameHist, nFields, pending, seen, ch, chClosed, wg,
                   outClosed, consumer, out, sent>>

\* ----------------------------------------------------------------- consumer
\* OutputRoutine starts without counting down the WaitGroup
WgDoneForgotten ==
    /\ mPc # "exited"
    /\ cPc = "spawned"
    /\ wg' = wg
    /\ cPc' = "tables"
    /\ UNCHANGED <<config, sorting, producer, ch, chClosed, outClosed, digitCombs,
                   charCombs, name, di, ci, out, sent, failedWrites>>

\* wg.Done(), the first statement of OutputRoutine
WgDone ==
    /\ mPc # "exited"
    /\ cPc = "spawned"
    /\ wg' = wg - 1
    /\ cPc' = "tables"
    /\ UNCHANGED <<config, sorting, producer, ch, chClosed, outClosed, digitCombs,
                   charCombs, name, di, ci, out, sent, failedWrites>>

\* the number and special character combinations
BuildTables ==
    /\ mPc # "exited"
    /\ cPc = "tables"
    /\ digitCombs' = DigitCombs(digits)
    /\ charCombs' = CharCombs(specialChars)
    /\ cPc' = "range"
    /\ UNCHANGED <<config, sorting, producer, ch, chClosed, wg, outClosed, name, di, ci,
                   out, sent, failedWrites>>

\* the value a receive takes from the buffer
Dequeue(q) == Head(q)

\* the buffer after that receive
Rest(q) == Tail(q)

\* a receive that also takes the name out of the histogram
ReceiveAndForget ==
    /\ mPc # "exited"
    /\ cPc = "range"
    /\ Len(ch) > 0
    /\ name' = Dequeue(ch)
    /\ ch' = Rest(ch)
    /\ di' = 1
    /\ ci' = 1
    /\ cPc' = "write"
    /\ firstnameHist' = [f \in DOMAIN firstnameHist \ {name'} |-> firstnameHist[f]]
    /\ UNCHANGED <<config, sorting, nFields, mPc, pending, seen, stream, err, chClosed, wg,
                   outClosed, digitCombs, charCombs, out, sent, failedWrites>>

\* for name := range ch: the next name
Receive ==
    /\ mPc # "exited"
    /\ cPc = "range"
    /\ Len(ch) > 0
    /\ name' = Dequeue(ch)
    /\ ch' = Rest(ch)
    /\ di' = 1
    /\ ci' = 1
    /\ cPc' = "write"
    /\ UNCHANGED <<config, sorting, producer, chClosed, wg, outClosed, digitCombs,
                   charCombs, out, sent, failedWrites>>

\* the loop over the channel ends as soon as the channel is empty
RangeEndOnEmpty ==
    /\ mPc # "exited"
    /\ cPc = "range"
    /\ Len(ch) = 0
    /\ cPc' = "done"
    /\ UNCHANGED <<config, sorting, producer, ch, chClosed, wg, outClosed, digitCombs,
                   charCombs, name, di, ci, out, sent, failedWrites>>

\* for name := range ch: the channel is closed and drained, the routine returns
RangeEnd ==
    /\ mPc # "exited"
    /\ cPc = "range"
    /\ Len(ch) = 0
    /\ chClosed
    /\ cPc' = "done"
    /\ UNCHANGED <<config, sorting, producer, ch, chClosed, wg, outClosed, digitCombs,
                   charCombs, name, di, ci, out, sent, failedWrites>>

\* one w.WriteString(...) of the inner loop; a write to the closed file fails
\* and its error is dropped
WriteString ==
    /\ mPc # "exited"
    /\ cPc = "write"
    /\ out' = IF outClosed THEN out
              ELSE out \o Chunk(name, digitCombs[di], charCombs[ci])
    /\ IF ci < Len(charCombs)
       THEN ci' = ci + 1 /\ UNCHANGED <<di, cPc>>
       ELSE IF di < Len(digitCombs)
            THEN ci' = 1 /\ di' = di + 1 /\ UNCHANGED cPc
            ELSE ci' = 0 /\ di' = 0 /\ cPc' = "range"
    /\ UNCHANGED <<config, sorting, producer, ch, chClosed, wg, outClosed, digitCombs,
                   charCombs, name, sent, failedWrites>>

\* one w.WriteString(...) that fails (the disk is full): the file takes none
\* of the lines, the error that is returned is dropped
WriteFails ==
    /\ mPc # "exited"
    /\ cPc = "write"
    /\ ~outClosed
    /\ failedWrites < MaxFailedWrites
    /\ failedWrites' = failedWrites + 1
    /\ out' = out
    /\ IF ci < Len(charCombs)
       THEN ci' = ci + 1 /\ UNCHANGED <<di, cPc>>
       ELSE IF di < Len(digitCombs)
            THEN ci' = 1 /\ di' = di + 1 /\ UNCHANGED cPc
            ELSE ci' = 0 /\ di' = 0 /\ cPc' = "range"
    /\ UNCHANGED <<config, sorting, producer, ch, chClosed, wg, outClosed, digitCombs,
                   charCombs, name, sent>>

Next ==
    \/ \E v \in Values : Field(v)
    \/ Send
    \/ EndOfInput
    \/ Close
    \/ WaitReturn
    \/ Exit
    \/ WgDone
    \/ BuildTables
    \/ Receive
    \/ RangeEnd
    \/ WriteString

Spec == Init /\ [][Next]_vars

\* ------------------------------------------------- OutputRoutine on its own
\* the candidate of a name field value, for the values that have one
Candidates ==
    { FirstnameSeperatorSplit(NameSeperatorSplit(v)[2])[1] :
        v \in {w \in ExpandValues : Len(NameSeperatorSplit(w)) >= 2} }

\* the producer has counted one name once, sent it, closed the channel and
\* stands at wg.Wait(); OutputRoutine has not run yet
InitExpand ==
    /\ cnt = 1
    /\ digits \in 0..ExpDigits
    /\ specialChars \in ExpandSpecialChars
    /\ \E f \in Candidates :
         /\ firstnameHist = Increment(<< >>, f)
         /\ ch = <<f>>
         /\ seen = <<f>>
         /\ sent = <<f>>
    /\ nFields = 1
    /\ mPc = "wait"
    /\ pending = << >>
    /\ chClosed = TRUE
    /\ wg = 1
    /\ outClosed = FALSE
    /\ cPc = "spawned"
    /\ digitCombs = << >>
    /\ charCombs = << >>
    /\ name = << >>
    /\ di = 0
    /\ ci = 0
    /\ out = << >>
    /\ input = << >>
    /\ nPages = 0
    /\ todo = << >>
    /\ err = "EOF"
    /\ failedWrites = 0
    /\ final = << >>
    /\ sPc = "none"

\* the steps of OutputRoutine while namesWordlist is not scheduled
NextExpand ==
    \/ WgDone
    \/ BuildTables
    \/ Receive
    \/ RangeEnd
    \/ WriteString

SpecExpand == InitExpand /\ [][NextExpand]_vars

\* ------------------------------------------------ the stream of page texts
\* the input streams of up to MaxPages pages
Streams == UNION {[1..n -> Pages] : n \in 0..MaxPages}

\* the state after go OutputRoutine(...), the input being a stream of pages;
\* the runs over page texts are configured without numeric suffixes
InitStream ==
    /\ cnt \in 1..MaxCnt
    /\ digits = 0
    /\ specialChars \in {sc \in SpecialChars : Len(sc) <= 1}
    /\ input \in Streams
    /\ nPages = 0
    /\ todo = << >>
    /\ err = "nil"
    /\ firstnameHist = << >>
    /\ nFields = 0
    /\ mPc = "scan"
    /\ pending = << >>
    /\ ch = << >>
    /\ chClosed = FALSE
    /\ wg = 1
    /\ outClosed = FALSE
    /\ cPc = "spawned"
    /\ digitCombs = << >>
    /\ charCombs = << >>
    /\ name = << >>
    /\ di = 0
    /\ ci = 0
    /\ out = << >>
    /\ seen = << >>
    /\ sent = << >>
    /\ failedWrites = 0
    /\ final = << >>
    /\ sPc = "none"

NextStream ==
    \/ Page
    \/ Segment
    \/ ReadError
    \/ Send
    \/ EndOfInput
    \/ Close
    \/ WaitReturn
    \/ Exit
    \/ WgDone
    \/ BuildTables
    \/ Receive
    \/ RangeEnd
    \/ WriteString
    \/ WriteFails

SpecStream == InitStream /\ [][NextStream]_vars

\* ------------------------------------------------------------- scheduling
\* the steps of the goroutine of namesWordlist
ProducerNext ==
    \/ Page
    \/ Segment
    \/ ReadError
    \/ Send
    \/ EndOfInput
    \/ Close
    \/ WaitReturn
    \/ Exit

\* the steps of the goroutine of OutputRoutine
ConsumerNext ==
    \/ WgDone
    \/ BuildTables
    \/ Receive
    \/ RangeEnd
    \/ WriteString
    \/ WriteFails

\* the state after go OutputRoutine(...) of a run over page texts without
\* special characters
InitLive == InitStream /\ specialChars = << >>

\* the runs over page texts in which a goroutine that can run does run
LiveStream ==
    /\ InitLive
    /\ [][ProducerNext \/ ConsumerNext]_vars
    /\ WF_vars(ProducerNext)
    /\ WF_vars(ConsumerNext)

\* ------------------------------------------------------------------ claims
\* the lines of one name in the order of the loops of OutputRoutine
ExpansionOf(f, dc, cc) ==
    LET n == Len(dc) * Len(cc)
        lines[k \in 0..n] ==
            IF k = 0 THEN << >>
            ELSE lines[k - 1] \o Chunk(f, dc[((k - 1) \div Len(cc)) + 1], cc[((k - 1) % Len(cc)) + 1])
    IN  lines[n]

\* the lines of the names fs, one name after the other
RECURSIVE ExpansionsOf(_, _, _)
ExpansionsOf(fs, dc, cc) ==
    IF fs = << >> THEN << >>
    ELSE ExpansionOf(Head(fs), dc, cc) \o ExpansionsOf(Tail(fs), dc, cc)

\* everything the configured run has to write for the names fs
FullOutput(fs) == ExpansionsOf(fs, DigitCombs(digits), CharCombs(specialChars))

IsPrefix(s, t) == Len(s) <= Len(t) /\ s = SubSeq(t, 1, Len(s))

\* how often f has been sent or stands at its send
Occurrences(f) ==
    Cardinality({k \in 1..Len(sent) : sent[k] = f})
        + (IF mPc = "send" /\ pending = f THEN 1 ELSE 0)

RunComplete == mPc \in {"returned", "exited"}

\* C1: when namesWordlist has returned from wg.Wait(), OutputRoutine has
\* exited and every name that was sent on the channel is written in full.
\* (Stated for the runs in which a name was sent.)
C1_CompleteMeansAllWritten ==
    (RunComplete /\ sent # << >>) => (cPc = "done" /\ out = FullOutput(sent))

\* the step is the threshold event of f: the producer reaches the send of f
Fires(f) == mPc = "scan" /\ mPc' = "send" /\ pending' = f

\* the names of either histogram of a step
StepNames == DOMAIN firstnameHist \cup DOMAIN firstnameHist'

C3_OutputIsNamesAtThreshold ==
    (RunComplete /\ cnt >= 1) =>
        /\ Range(sent) = {f \in DOMAIN firstnameHist : firstnameHist[f] >= cnt}
        /\ Cardinality(Range(sent)) = Len(sent)
        /\ out = FullOutput(sent)

C5_BoundedAndNothingLost ==
    /\ Len(ch) <= ChanCap
    /\ (mPc = "send" /\ Len(ch) = ChanCap) => ~ENABLED Send
    /\ mPc = "exited" => ch = << >>

\* the writes a state is asked about: the last one while a name is being
\* written (the output only grows), every one between two names and at the
\* end; write j made the lines 3j-2 .. 3j
AskedWrites ==
    IF cPc = "write" THEN {j \in 1..(Len(out) \div 3) : j = Len(out) \div 3}
    ELSE 1..(Len(out) \div 3)

\* the lines of the writes asked about
Asked ==
    IF cPc = "write" THEN {p \in (Len(out) - 2)..Len(out) : p >= 1} ELSE 1..Len(out)

\* the block of lines that holds line p, and the place of p in that block
BlockSize == 3 * Len(digitCombs) * Len(charCombs)
Block(p) == ((p - 1) \div BlockSize) + 1
BlockPlace(p) == (p - 1) % BlockSize

\* C6: the lines are written in the order in which the names were sent, the
\* lines of one name in one block: the k-th block of the output holds the
\* lines of the k-th name sent and of no other name.
C6_WrittenInSendOrder ==
    /\ Len(out) % 3 = 0
    /\ Len(out) <= BlockSize * Len(sent)
    /\ \A j \in AskedWrites :
          LET pair == BlockPlace(3 * j) \div 3
          IN  SubSeq(out, 3 * j - 2, 3 * j) =
                  Chunk(sent[Block(3 * j)],
                        digitCombs[(pair \div Len(charCombs)) + 1],
                        charCombs[(pair % Len(charCombs)) + 1])

\* two names were sent and written in full; the one that crossed the
\* threshold first had been seen after the other one
C6_Witness ==
    /\ Len(sent) = 2
    /\ seen = <<sent[2], sent[1]>>
    /\ out = FullOutput(sent)
    /\ Len(out) > 6

\* the three case forms of the names sent
CaseForms == [f \in Range(sent) |-> <<ToLower(f), ToUpper(f), Title(f)>>]

\* the name whose block holds line p
BlockName(p) == sent[Block(p)]

\* C7 as claimed: the case form is the outermost loop, the numeric suffix
\* the middle one and the special suffix the innermost.
C7_CaseOutermost ==
    \A p \in Asked :
        LET q == BlockPlace(p)
            nD == Len(digitCombs)
            nC == Len(charCombs)
        IN  out[p] = CaseForms[BlockName(p)][(q \div (nD * nC)) + 1]
                        \o digitCombs[((q \div nC) % nD) + 1]
                        \o charCombs[(q % nC) + 1]

\* C7 amended: the numeric suffix is the outermost loop, the special suffix
\* the middle one and the case form the innermost: the lines come in groups
\* of three (lower, upper, title) that share their suffixes, each line being
\* case form + numeric suffix + special suffix.
C7_CaseInnermost ==
    \A p \in Asked :
        LET q == BlockPlace(p)
            nC == Len(charCombs)
        IN  out[p] = CaseForms[BlockName(p)][(q % 3) + 1]
                        \o digitCombs[(q \div (3 * nC)) + 1]
                        \o charCombs[((q \div 3) % nC) + 1]

\* a name is written in full with several numeric and special suffixes
C7_Witness ==
    /\ cPc = "done"
    /\ digits >= 1
    /\ Len(specialChars) >= 1
    /\ Len(sent[1]) >= 1
    /\ Len(out) = BlockSize

\* 1 + 10 + ... + 10^n
RECURSIVE GeometricSum(_)
GeometricSum(n) == IF n <= 0 THEN 1 ELSE Pow(10, n) + GeometricSum(n - 1)

\* the configured characters as a set
SpecialSet == Range(specialChars)

\* C8: OutputRoutine writes 3 * (1 + 10 + ... + 10^D) * (1 + |S|) lines for
\* every name, S being the configured set of special characters (a string
\* that names each of its characters once).
C8_LinesPerName ==
    (cPc = "done" /\ Cardinality(SpecialSet) = Len(specialChars)) =>
        Len(out) = Len(sent) * 3 * GeometricSum(digits) * (1 + Cardinality(SpecialSet))

\* D = 2 and S = {"!"}: 666 lines
C8_Witness ==
    /\ cPc = "done"
    /\ digits = 2
    /\ specialChars = <<"!">>
    /\ Len(out) = 666

\* C9: the numeric table holds the empty string and, for every width w in
\* 1..D, each string of w decimal digits once, and nothing else; the special
\* table is the empty string followed by each configured character.
C9_SuffixTables ==
    cPc \in {"range", "done"} =>
        /\ Len(digitCombs) = GeometricSum(digits)
        /\ Range(digitCombs) = {<< >>} \cup UNION {[1..w -> DigitSet] : w \in 1..digits}
        /\ Len(charCombs) = 1 + Len(specialChars)
        /\ charCombs[1] = << >>
        /\ \A k \in 1..Len(specialChars) : charCombs[k + 1] = <<specialChars[k]>>

\* the tables of D = 2 and two special characters are built
C9_Witness ==
    /\ cPc = "range"
    /\ digits = 2
    /\ Len(digitCombs) = 111
    /\ Len(charCombs) = 3

\* the first letter in upper case, every other letter in lower case
Capitalized(f) ==
    [k \in 1..Len(f) |-> IF k = 1 THEN ToUpperChar(f[k]) ELSE ToLowerChar(f[k])]

\* C10: the three case forms written for a name are its all-lowercase form,
\* its all-uppercase form and the form with the first letter capitalized and
\* every other letter lowercased. (Read off the first write, whose suffixes
\* are empty.)
C10_TitleLowersTheRest ==
    Len(out) >= 3 =>
        /\ out[1] = ToLower(sent[1])
        /\ out[2] = ToUpper(sent[1])
        /\ out[3] = Capitalized(sent[1])

\* the input stream of the end-to-end scenario: the page with the two name
\* fields, and a second page
OttoStream == <<OttoPage, PlainPage>>

\* the lines otto, OTTO, Otto
OttoLines ==
    << <<"o", "t", "t", "o">>, <<"O", "T", "T", "O">>, <<"O", "t", "t", "o">> >>

\* C11: for the stream of two pages whose first holds the fields
\* name = Schmidt, Otto and name = M\"uller, Otto, with count 2, digits 0 and
\* no special characters, the output present when the run is complete (and
\* neither reading nor writing failed) is exactly the lines otto, OTTO, Otto.
C11_OttoScenario ==
    ( /\ input = OttoStream
      /\ cnt = 2 /\ digits = 0 /\ specialChars = << >>
      /\ err = "EOF" /\ failedWrites = 0
      /\ RunComplete ) => out = OttoLines

\* C12: a failed write to the output file is fatal for the whole run: from
\* then on the consumer writes nothing further, the producer counts and sends
\* nothing further, and the run does not end as a run that succeeded.
C12_WriteFailureIsFatal ==
    [][ failedWrites > 0 =>
          /\ out' = out
          /\ firstnameHist' = firstnameHist
          /\ sent' = sent
          /\ mPc' \notin {"returned", "exited"} ]_vars

\* C13: a count below 1 is rejected before the pipeline starts: under such a
\* configuration no field is read, no name is counted, nothing is sent or
\* written, and the run does not end as a run that succeeded.
C13_InvalidCountRejected ==
    cnt < 1 =>
        /\ nFields = 0
        /\ firstnameHist = << >>
        /\ sent = << >>
        /\ out = << >>
        /\ ~RunComplete

\* the segment a step parses, as key and value (<< >> if it has neither)
StepField == IF todo = << >> THEN << >> ELSE FindStringSubmatch(Head(todo))

\* the step parses a segment that is a name field
NameFieldStep ==
    /\ todo # << >> /\ todo' = Tail(todo)
    /\ StepField # << >>
    /\ ToLower(StepField[1]) = <<"n", "a", "m", "e">>

\* the positions of the commas of v
Commas(v) == {i \in 1..Len(v) : v[i] = ","}

\* the first token of the part after the first comma: it begins after the
\* whitespace that follows the comma and ends before the next delimiter or comma
TokenAfterFirstComma(v) ==
    LET c == CHOOSE i \in Commas(v) : \A j \in Commas(v) : i <= j
        b == Span(v, c + 1, Whitespace)
        e == CHOOSE i \in b..(Len(v) + 1) :
                /\ i = Len(v) + 1 \/ v[i] \in FirstnameSeperatorClass \cup {","}
                /\ \A j \in b..(i - 1) : v[j] \notin FirstnameSeperatorClass \cup {","}
    IN  SubSeq(v, b, e - 1)

MuellerAnnaMaria ==
    <<"M", "U+00FC", "l", "l", "e", "r", ",", " ", "A", "n", "n", "a", " ",
    "M", "a", "r", "i", "a">>

Mueller == <<"M", "U+00FC", "l", "l", "e", "r">>

Anna == <<"A", "n", "n", "a">>

\* C14: a name field yields a candidate only if its value has a comma, and
\* the candidate is then the first token of the part after the first comma,
\* verbatim: a step over a name field without a comma leaves the histogram
\* unchanged, every other one counts exactly that token; the value
\* "M\"uller, Anna Maria" counts Anna and the value "M\"uller" counts nothing.
C14_FirstTokenAfterComma ==
    [][ NameFieldStep =>
          LET v == StepField[2] IN
          /\ firstnameHist' = IF Commas(v) = {} THEN firstnameHist
                              ELSE Increment(firstnameHist, TokenAfterFirstComma(v))
          /\ v = MuellerAnnaMaria => firstnameHist' = Increment(firstnameHist, Anna)
          /\ v = Mueller => firstnameHist' = firstnameHist ]_vars

\* the page with the values "M\"uller" and "M\"uller, Anna Maria" has been
\* parsed: two name fields, one candidate
C14_Witness ==
    /\ nPages = 1
    /\ input[1] = AnnaPage
    /\ nFields = 2
    /\ DOMAIN firstnameHist = {Anna}
    /\ firstnameHist[Anna] = 1

\* C15: a first-name part that is empty or begins with a delimiter yields
\* no candidate: the empty string is never a key of the histogram and is
\* never sent on the channel.
C15_NoEmptyCandidate ==
    /\ << >> \notin DOMAIN firstnameHist
    /\ << >> \notin Range(sent)
    /\ << >> \notin Range(ch)

\* the text holds the opening of the template somewhere, in any case
HasOpening(text) ==
    \E i \in 1..Len(text) :
        /\ i + Len(TemplateOpening) - 1 <= Len(text)
        /\ ToLower(SubSeq(text, i, i + Len(TemplateOpening) - 1)) = TemplateOpening

\* the step decodes a page
PageStep == nPages' = nPages + 1

\* the step parses a segment
SegmentStep == todo # << >> /\ todo' = Tail(todo)

\* the segment of the step is one that is skipped: it does not parse as
\* key = value, or its key is not name, or it is a name without a comma
SkippedSegment ==
    \/ StepField = << >>
    \/ ToLower(StepField[1]) # <<"n", "a", "m", "e">>
    \/ Commas(StepField[2]) = {}

\* C16: parse-local failures are skipped without effect. A page without a
\* recognizable template yields no segment; a segment that does not parse as
\* key = value, one whose key is not name in any case, and a name value
\* without a comma leave the histogram and the channel unchanged, and the
\* producer goes on scanning.
C16_SkipsHaveNoEffect ==
    [][ /\ (PageStep /\ ~HasOpening(input[nPages + 1])) =>
              /\ todo' = << >>
              /\ UNCHANGED <<firstnameHist, seen, ch, sent>>
              /\ mPc' = "scan"
        /\ (SegmentStep /\ SkippedSegment) =>
              /\ UNCHANGED <<firstnameHist, seen, ch, sent>>
              /\ mPc' = "scan" ]_vars

\* a page without a template and the page with a segment of every skipped
\* kind have been parsed; the one name field with a comma was counted
C16_Witness ==
    /\ input = <<PlainPage, AnnaPage>>
    /\ nPages = 2
    /\ todo = << >>
    /\ DOMAIN firstnameHist = {Anna}
    /\ mPc = "scan"

\* C17: a failure to read the input stream aborts the pipeline with a
\* terminal failure: once decoder.Token() has returned an error other than
\* the end of the input, the producer is at the fatal exit; it neither closes
\* the channel and waits nor returns like a run that succeeded.
C17_ReadErrorIsFatal ==
    err = "error" => mPc = "failed"

\* the step is one of OutputRoutine: its position or its loop indices change
ConsumerStep == cPc' # cPc \/ di' # di \/ ci' # ci

\* C18: the histogram belongs to the producer and the output file to the
\* consumer. No step of OutputRoutine changes the histogram, no step that
\* changes the histogram changes anything of OutputRoutine or the output, the
\* output changes only in a write of OutputRoutine, and the name that
\* OutputRoutine works on changes only to the name it takes from the channel.
C18_HistogramIsProducers ==
    [][ /\ ConsumerStep => UNCHANGED <<firstnameHist, seen, nFields, pending, sent>>
        /\ firstnameHist' # firstnameHist =>
              UNCHANGED <<cPc, digitCombs, charCombs, name, di, ci, out, ch>>
        /\ out' # out => (cPc = "write" /\ ConsumerStep)
        /\ name' # name => (ch # << >> /\ name' = Head(ch) /\ ch' = Tail(ch)) ]_vars

\* both sides are at work: the producer has counted names and scans on
\* while OutputRoutine is writing the lines of a name it has received
C18_Witness ==
    /\ mPc = "scan"
    /\ cPc = "write"
    /\ Len(out) > 0
    /\ \E f \in DOMAIN firstnameHist : firstnameHist[f] >= 2
    /\ todo # << >>

\* the first name a segment holds, exactly as it is written there: <<f>> for
\* a name field with a comma, << >> for every other segment
CandidateOf ==
    [sub \in AllSegments |->
        LET kv == FindStringSubmatch(sub)
        IN  IF kv = << >> THEN << >>
            ELSE IF ToLower(kv[1]) = <<"n", "a", "m", "e">> /\ Commas(kv[2]) # {}
                 THEN <<TokenAfterFirstComma(kv[2])>>
                 ELSE << >>]

\* the segments of the first n pages of the input
RECURSIVE SegmentsUpTo(_)
SegmentsUpTo(n) ==
    IF n = 0 THEN << >> ELSE SegmentsUpTo(n - 1) \o PageSegments[input[n]]

\* the first names, as written, of the name fields parsed so far
Verbatim ==
    LET all == SegmentsUpTo(nPages)
        got == [k \in 1..(Len(all) - Len(todo)) |-> CandidateOf[all[k]]]
    IN  SelectSeq(got, LAMBDA c : c # << >>)

\* the lines of the output that are equal to the line l
LinesEqual(l) == {q \in 1..Len(out) : out[q] = l}

\* C19: the keys of the histogram are the first names exactly as written,
\* without case folding: every key is counted as often as it occurs verbatim
\* in the name fields parsed, each key reaches the threshold and is sent on
\* its own, and two keys that differ only in case are both expanded: their
\* common lines are written twice.
C19_KeysAreVerbatim ==
    LET names == Verbatim IN
    /\ DOMAIN firstnameHist = {names[k][1] : k \in 1..Len(names)}
    /\ \A f \in DOMAIN firstnameHist :
          /\ firstnameHist[f] = Cardinality({k \in 1..Len(names) : names[k][1] = f})
          /\ Occurrences(f) >= 1 <=> firstnameHist[f] >= cnt
    /\ (cPc = "done" /\ failedWrites = 0 /\ Len(out) = BlockSize * Len(sent)) =>
          \A f, g \in Range(sent) :
              (f # g /\ ToLower(f) = ToLower(g)) =>
                  Cardinality(LinesEqual(ToLower(f))) >= 2

\* the names ab and AB were both counted, sent and written in full: the
\* line ab is in the output twice
C19_Witness ==
    /\ cPc = "done"
    /\ failedWrites = 0
    /\ Len(out) = BlockSize * Len(sent)
    /\ {<<"a", "b">>, <<"A", "B">>} \subseteq Range(sent)
    /\ Cardinality(LinesEqual(<<"a", "b">>)) = 2

\* the three case forms of f are three different strings
CaseFormsDiffer(f) ==
    /\ ToLower(f) # ToUpper(f)
    /\ ToLower(f) # Title(f)
    /\ ToUpper(f) # Title(f)

\* C20 as claimed: the lines written for one name are pairwise distinct,
\* for every name and every configuration.
C20_LinesDistinct ==
    cPc = "done" => Cardinality(Range(out)) = Len(out)

\* C20 amended: the lines written for one name are pairwise distinct if the
\* three case forms of the name are pairwise distinct, the special
\* characters are pairwise distinct and none of them is a decimal digit.
C20_LinesDistinctIfFormsDiffer ==
    ( /\ cPc = "done"
      /\ CaseFormsDiffer(sent[1])
      /\ Cardinality(SpecialSet) = Len(specialChars)
      /\ SpecialSet \cap DigitSet = {} ) => Cardinality(Range(out)) = Len(out)

\* the 999 lines of ab with two digits and two special characters
C20_Witness ==
    /\ cPc = "done"
    /\ sent[1] = <<"a", "b">>
    /\ digits = 2
    /\ specialChars = <<"!", "$">>
    /\ Len(out) = 999
    /\ Cardinality(Range(out)) = 999

\* the phase of the pipeline: Running until the channel is closed, Draining
\* until OutputRoutine has left its loop, Done from then on
Phase ==
    IF ~chClosed THEN "Running" ELSE IF cPc # "done" THEN "Draining" ELSE "Done"

BlockedOnFull == mPc = "send" /\ Len(ch) = ChanCap

\* C22: the pipeline never hangs. Under fair scheduling of the two
\* goroutines the producer eventually closes the channel, OutputRoutine
\* eventually ends (it leaves its loop, or it ends with the process) and the
\* process eventually ends, also after a read error or a failed write; and
\* whenever the producer waits at the full channel, OutputRoutine can run.
C22_NeverHangs ==
    /\ <>chClosed
    /\ <>(cPc = "done" \/ mPc = "exited")
    /\ <>(mPc = "exited")
    /\ [](BlockedOnFull => ENABLED ConsumerNext)
    /\ [](err = "error" => <>(mPc = "exited"))
    /\ [](failedWrites > 0 => <>(mPc = "exited"))

\* more names were sent than the channel holds, a write has failed, and the
\* process has ended all the same
C22_Witness ==
    /\ mPc = "exited"
    /\ Len(sent) > ChanCap
    /\ failedWrites > 0

\* the entries of the histogram that the step changes or adds
HistChanged == {f \in DOMAIN firstnameHist' : firstnameHist'[f] # Count(firstnameHist, f)}

\* the first name of the name field the step parses, << >> if it parses
\* none
StepCandidate == IF SegmentStep THEN CandidateOf[Head(todo)] ELSE << >>

\* C23: the counts of the histogram only grow, by one at a time. In every
\* step no key is removed, every count is unchanged or one higher, every
\* stored count is at least 1, and at most one entry changes: a step that
\* parses a name field raises the count of its first name and of nothing
\* else, every other step leaves the histogram as it is.
C23_CountsOnlyGrow ==
    [][ /\ DOMAIN firstnameHist \subseteq DOMAIN firstnameHist'
        /\ \A f \in DOMAIN firstnameHist' :
              /\ firstnameHist'[f] >= 1
              /\ firstnameHist'[f] - Count(firstnameHist, f) \in {0, 1}
        /\ Cardinality(HistChanged) <= 1
        /\ HistChanged = {StepCandidate[k] : k \in 1..Len(StepCandidate)} ]_vars

\* the name counted first still has its count of one after another name was
\* counted twice
C23_Witness ==
    \E f, g \in DOMAIN firstnameHist :
        /\ firstnameHist[f] >= 2
        /\ firstnameHist[g] = 1
        /\ seen[1] = g

\* ------------------------------------------------------- the batch revision
\* the revision that scans first and expands afterwards (namesDict)

\* the number of distinct names at which the batch scan stops reading (50 in
\* the code)
HistLimit == 2

\* the body of case "name" for the value v
BatchName(h, v) ==
    LET names == NameGroups[v] IN
    IF Len(names) < 2 THEN h
    ELSE LET firstname == FirstnameTokens[names[2]] IN
         IF Len(firstname) < 1 THEN h
         ELSE Increment(h, firstname[1])

\* the loops over the templates of a page and their segments
RECURSIVE BatchSegments(_, _)
BatchSegments(h, segs) ==
    IF segs = << >> THEN h
    ELSE LET kv == Submatch[Head(segs)]
             h1 == IF kv = << >> THEN h
                   ELSE IF IsNameKey(kv[1]) THEN BatchName(h, kv[2]) ELSE h
         IN  BatchSegments(h1, Tail(segs))

\* the token loop over the pages that can be read: it ends at the end of the
\* input or at a read error, and after any page that leaves HistLimit or
\* more names in the histogram
RECURSIVE BatchScan(_, _)
BatchScan(h, pages) ==
    IF pages = << >> THEN h
    ELSE LET h1 == BatchSegments(h, PageSegments[Head(pages)])
         IN  IF Cardinality(DOMAIN h1) >= HistLimit THEN h1
             ELSE BatchScan(h1, Tail(pages))

\* the names the batch revision expands: those not below the count
BatchNames(h, n) == {f \in DOMAIN h : ~(h[f] < n)}

\* the lines the batch revision writes for the names fs
BatchOutput(fs, dc, cc) ==
    UNION {Range(Chunk(f, dc[i], cc[j])) : f \in fs, i \in 1..Len(dc), j \in 1..Len(cc)}

\* the pages that could be read: all of them, or those before the read error
Readable == SubSeq(input, 1, nPages)

\* the lines the batch revision writes for the input of this run and its
\* configuration
BatchLines ==
    BatchOutput(BatchNames(BatchScan(<< >>, Readable), cnt),
                DigitCombs(digits), CharCombs(specialChars))

\* the streaming run has read its input to the end (or to the read error)
\* and OutputRoutine has left its loop with every line of every name it
\* received in the file
StreamingDone ==
    /\ err # "nil"
    /\ cPc = "done"
    /\ failedWrites = 0
    /\ Len(out) = BlockSize * Len(sent)

\* C24: the streaming pipeline and the batch revision write the same set of
\* lines for the same input, count, digits and special characters: when the
\* streaming run is through, the lines of its output are the lines the
\* batch revision writes.
C24_SameLinesAsBatch == StreamingDone => Range(out) = BatchLines

\* ----------------------------------------------------- the sorting revision
\* the revision that prints the names ordered by their counts (namesDict with
\* --count as "take the top N names only")

\* the highest count of a name in a histogram
MaxOccurs == 2

\* the highest value of --count
MaxTop == 3

\* the first names of the histograms
SortNames == { <<"A", "n", "n", "a">>, <<"E", "v", "a">>, <<"O", "t", "t", "o">> }

\* the histograms the token loop can leave behind
Histograms == UNION {[ns -> 1..MaxOccurs] : ns \in SUBSET SortNames}

\* FirstnameCounts.Less on two elements
Less(a, b) == a.Count > b.Count

\* the slice s holds the elements of the slice t in some order
IsPermutation(s, t) ==
    /\ Len(s) = Len(t)
    /\ \E pi \in [1..Len(t) -> 1..Len(t)] :
          /\ \A i, j \in 1..Len(t) : i # j => pi[i] # pi[j]
          /\ \A i \in 1..Len(t) : s[i] = t[pi[i]]

\* s is ordered by Less: no element is Less than one that stands before it
Sorted(s) == \A i, j \in 1..Len(s) : i < j => ~Less(s[j], s[i])

\* the state after the token loop of the sorting revision, with
\* final := make([]*FirstnameCount, 0, len(firstnameHist))
InitSort ==
    /\ cnt \in 0..MaxTop
    /\ firstnameHist \in Histograms
    /\ final = << >>
    /\ sPc = "collect"
    /\ digits = 0
    /\ specialChars = << >>
    /\ nFields = 0
    /\ mPc = "scan"
    /\ pending = << >>
    /\ ch = << >>
    /\ chClosed = FALSE
    /\ wg = 0
    /\ outClosed = FALSE
    /\ cPc = "spawned"
    /\ digitCombs = << >>
    /\ charCombs = << >>
    /\ name = << >>
    /\ di = 0
    /\ ci = 0
    /\ out = << >>
    /\ seen = << >>
    /\ sent = << >>
    /\ input = << >>
    /\ nPages = 0
    /\ todo = << >>
    /\ err = "EOF"
    /\ failedWrites = 0

\* the variables of the pipeline, which the sorting revision does not have
pipeline == <<digits, specialChars, nFields, mPc, pending, ch, chClosed, wg, outClosed,
              consumer, out, seen, sent, stream, err>>

\* one round of for f, c := range firstnameHist: the map is iterated in an
\* order that is not specified
Collect ==
    /\ sPc = "collect"
    /\ \E f \in DOMAIN firstnameHist \ {final[k].Firstname : k \in 1..Len(final)} :
          final' = Append(final, [Firstname |-> f, Count |-> firstnameHist[f]])
    /\ UNCHANGED <<cnt, firstnameHist, sPc, pipeline>>

\* sort.Sort(FirstnameCounts(final)): the sort is not stable, elements that
\* neither is Less than the other end in any order
Sort ==
    /\ sPc = "collect"
    /\ DOMAIN firstnameHist = {final[k].Firstname : k \in 1..Len(final)}
    /\ \E s \in [1..Len(final) -> Range(final)] :
          /\ IsPermutation(s, final)
          /\ Sorted(s)
          /\ final' = s
    /\ sPc' = "limit"
    /\ UNCHANGED <<cnt, firstnameHist, pipeline>>

\* if cnt > 0 { final = final[0:cnt] }: the slice expression panics when cnt
\* is above the capacity of final, which is len(firstnameHist)
Limit ==
    /\ sPc = "limit"
    /\ IF cnt > 0
       THEN IF cnt > Cardinality(DOMAIN firstnameHist)
            THEN sPc' = "panic" /\ UNCHANGED final
            ELSE sPc' = "print" /\ final' = SubSeq(final, 1, cnt)
       ELSE sPc' = "print" /\ UNCHANGED final
    /\ UNCHANGED <<cnt, firstnameHist, pipeline>>

\* fmt.Println(final)
Println ==
    /\ sPc = "print"
    /\ sPc' = "printed"
    /\ UNCHANGED <<cnt, firstnameHist, final, pipeline>>

NextSort == Collect \/ Sort \/ Limit \/ Println

SpecSort == InitSort /\ [][NextSort]_vars

\* the number of names the result is to hold: the top cnt, all for cnt = 0,
\* all if there are fewer than cnt
TopLen ==
    IF cnt = 0 \/ cnt > Cardinality(DOMAIN firstnameHist)
    THEN Cardinality(DOMAIN firstnameHist)
    ELSE cnt

\* the names of the result
FinalNames == {final[k].Firstname : k \in 1..Len(final)}

\* C25: in the sorting revision the result is the top cnt names, all names
\* for cnt = 0, for every histogram, also one with fewer than cnt names: the
\* run does not fail, and what is printed are TopLen different names of the
\* histogram with their counts, in non-increasing order of the counts, none
\* of them counted less often than a name that is left out.
C25_TopNamesOnly ==
    /\ sPc # "panic"
    /\ sPc = "printed" =>
          /\ Len(final) = TopLen
          /\ Cardinality(FinalNames) = Len(final)
          /\ \A k \in 1..Len(final) :
                /\ final[k].Firstname \in DOMAIN firstnameHist
                /\ final[k].Count = firstnameHist[final[k].Firstname]
          /\ \A i, j \in 1..Len(final) : i < j => final[i].Count >= final[j].Count
          /\ \A f \in DOMAIN firstnameHist \ FinalNames :
                \A k \in 1..Len(final) : firstnameHist[f] <= final[k].Count

====
